---- MODULE Spec2Model ----
(***************************************************************************)
(* Model of the HTS221 driver (drogue-iot/hts221-async).                   *)
(*                                                                         *)
(* The driver session (struct Hts221: i2c, address, calibration) is driven *)
(* by a single caller that invokes initialize() and read() one after the   *)
(* other.  Every `.await` on a bus transaction is one step of the model.   *)
(* The I2C transport is the environment: each transaction either fails     *)
(* with a transport error or succeeds and delivers bytes chosen by the     *)
(* device.  `trace` is the record a transport test double keeps of the     *)
(* transactions issued during the current call.                            *)
(***************************************************************************)
EXTENDS Integers, Sequences, FiniteSets, TLC

\* ------------------------------------------------------------------ bounds

\* Largest number of drain iterations the device forces on one initialize().
MaxDrain == 3

\* ------------------------------------------------------- program constants

\* lib.rs: const ADDR: u8 = 0x5F
ADDR == 95
\* register/ctrl2.rs: const CTRL_REG2: u8 = 0x21
CTRL_REG2 == 33
\* register/h_out.rs: const H_OUT: u8 = 0xA8 (auto-increment variant of 2 bytes)
H_OUT == 168
\* register/status.rs: const STATUS: u8 = 0x27
STATUS == 39

\* Index bytes of the registers whose codecs are not among the available
\* sources (who_am_i, ctrl1, ctrl3, t_out, calibration); values of the
\* device's register map.
WHO_AM_I == 15
CTRL_REG1 == 32
CTRL_REG3 == 34
T_OUT == 170
CALIB_T0 == 176
CALIB_T1 == 180
CALIB_H0 == 184
CALIB_H1 == 188

\* ------------------------------------------------------------ environment

\* Transport errors (the opaque type E of the bus).
Errors == {"e1", "e2"}

\* Bytes the device may deliver for each register.
WhoAmIBytes == {ADDR, 188}
Ctrl2Bytes == {0, 127}
Ctrl1Bytes == {0}
Ctrl3Bytes == {0}
\* 0: nothing available; 1: temperature; 252: only the six other bits set;
\* 254: humidity and the six other bits.
StatusBytes == {0, 1, 252, 254}
\* Two-byte output samples [lo, hi] delivered to read(): 1 and -1.
SampleBytes == {<<1, 0>>, <<255, 255>>}
\* Stale sample delivered while initialize() drains (the driver discards it).
StaleBytes == {<<1, 0>>}
\* Calibration points [x lo, x hi, y lo, y hi] per calibration register.  The
\* second point of each quantity either differs from the first in x or has
\* the same x (a degenerate pair).
CalibBytes(r) ==
    CASE r = CALIB_T0 -> {<<0, 0, 0, 0>>}
      [] r = CALIB_T1 -> {<<2, 0, 16, 0>>, <<0, 0, 8, 0>>}
      [] r = CALIB_H0 -> {<<0, 0, 0, 0>>}
      [] r = CALIB_H1 -> {<<2, 0, 4, 0>>, <<0, 0, 2, 0>>}

\* ------------------------------------------------------------------ state

VARIABLES
    calibration,   \* Hts221.calibration: Option<Calibration>
    pc,            \* position of the caller inside initialize()/read()
    op,            \* the call in progress or last returned
    result,        \* value returned by the last call
    trace,         \* bus transactions issued by the current/last call
    reg,           \* local `reg` of a register modify()
    cal,           \* calibration points read so far by Calibration::read
    temperature,   \* local `temperature` of read()
    calAtCall,     \* calibration as it was when the current call started
    lastInit,      \* how the most recent initialize() returned
    everOk         \* some initialize() of this session has returned Ok

vars == <<calibration, pc, op, result, trace, reg, cal, temperature,
          calAtCall, lastInit, everOk>>

\* Option::None
None == [some |-> FALSE]
Some(v) == [some |-> TRUE, val |-> v]

NoValue == [num |-> 0, den |-> 1]

\* ------------------------------------------------------- register codecs

\* Bit k of byte b: (b & (1 << k)) != 0
Bit(b, k) == (b \div (2 ^ k)) % 2 = 1

\* Variant of IntoCtrl2 that takes the heater flag from bit 2.
IntoCtrl2_HeaterBit2(b) ==
    [boot |-> Bit(b, 7), heater |-> Bit(b, 2), enable_one_shot |-> Bit(b, 0)]

\* impl Into<Ctrl2> for u8
IntoCtrl2(b) ==
    [boot |-> Bit(b, 7), heater |-> Bit(b, 1), enable_one_shot |-> Bit(b, 0)]

\* impl Into<u8> for Ctrl2
Ctrl2IntoU8(r) ==
    (IF r.boot THEN 128 ELSE 0) + (IF r.heater THEN 2 ELSE 0)
        + (IF r.enable_one_shot THEN 1 ELSE 0)

\* Variant of boot that builds a fresh register value with only boot set.
boot_Fresh(r) == [boot |-> TRUE, heater |-> FALSE, enable_one_shot |-> FALSE]

\* Ctrl2::boot
boot(r) == [r EXCEPT !.boot = TRUE]

\* Control register 1: bit7 power-active, bits6-4 output data rate, bit2
\* block data update.
IntoCtrl1(b) ==
    [power_active |-> Bit(b, 7), output_data_rate |-> (b \div 16) % 8,
     block_data_update |-> Bit(b, 2)]

Ctrl1IntoU8(r) ==
    (IF r.power_active THEN 128 ELSE 0) + 16 * r.output_data_rate
        + (IF r.block_data_update THEN 4 ELSE 0)

\* The closure given to Ctrl1::modify: power_active, OutputDataRate::Hz1,
\* BlockDataUpdate::MsbLsbReading.
Ctrl1Configure(r) ==
    [r EXCEPT !.power_active = TRUE, !.output_data_rate = 1,
              !.block_data_update = TRUE]

\* Control register 3: data-ready polarity (bit7), output mode (bit6),
\* data-ready enable (bit2).
IntoCtrl3(b) ==
    [active_low |-> Bit(b, 7), open_drain |-> Bit(b, 6), enable |-> Bit(b, 2)]

Ctrl3IntoU8(r) ==
    (IF r.active_low THEN 128 ELSE 0) + (IF r.open_drain THEN 64 ELSE 0)
        + (IF r.enable THEN 4 ELSE 0)

\* Ctrl3::enable(true)
Ctrl3Enable(r) == [r EXCEPT !.enable = TRUE]

\* Variant of IntoStatus that takes the humidity flag from bit 2.
IntoStatus_HumidityBit2(b) ==
    [temperature_available |-> Bit(b, 0), humidity_available |-> Bit(b, 2)]

\* impl Into<Status> for u8
IntoStatus(b) ==
    [temperature_available |-> Bit(b, 0), humidity_available |-> Bit(b, 1)]

\* Variant of any_available that asks for both flags.
any_available_Both(s) == s.temperature_available /\ s.humidity_available

\* Variant of any_available that always reports a sample.
any_available_Always(s) == TRUE

\* Status::any_available
any_available(s) == s.temperature_available \/ s.humidity_available

\* Variant of FromLeBytesI16 that takes the first byte as the high byte.
FromBeBytesI16(buf) ==
    LET u == 256 * buf[1] + buf[2]
    IN  IF u >= 32768 THEN u - 65536 ELSE u

\* i16::from_le_bytes(buf)
FromLeBytesI16(buf) ==
    LET u == buf[1] + 256 * buf[2]
    IN  IF u >= 32768 THEN u - 65536 ELSE u

\* ------------------------------------------------------------ calibration

\* One calibration register: a raw code x and a calibrated value y, both
\* signed 16-bit little-endian.
IntoCalibPoint(buf) ==
    [x |-> FromLeBytesI16(<<buf[1], buf[2]>>),
     y |-> FromLeBytesI16(<<buf[3], buf[4]>>)]

\* struct Calibration, assembled from the four points in reading order.
MkCalibration(pts) ==
    [t0 |-> pts[1], t1 |-> pts[2], h0 |-> pts[3], h1 |-> pts[4]]

CalibRegs == <<CALIB_T0, CALIB_T1, CALIB_H0, CALIB_H1>>

\* (y0 + (raw - x0) * (y1 - y0) / (x1 - x0)) / scale in floating point, kept
\* as the exact fraction num/den.  den = 0 is the float division by zero: the
\* value is then infinite or NaN.
Interpolate(p0, p1, raw, scale) ==
    [num |-> p0.y * (p1.x - p0.x) + (raw - p0.x) * (p1.y - p0.y),
     den |-> scale * (p1.x - p0.x)]

\* Calibration::calibrated_temperature (calibrated values scaled by 8)
calibrated_temperature(c, t_out) == Interpolate(c.t0, c.t1, t_out, 8)

\* Calibration::calibrated_humidity (calibrated values scaled by 2)
calibrated_humidity(c, h_out) == Interpolate(c.h0, c.h1, h_out, 2)

IsFinite(v) == v.den # 0

\* ---------------------------------------------------------------- results

Res(k, e, t, h) ==
    [kind |-> k, err |-> e, temperature |-> t, relative_humidity |-> h]

\* No call has returned yet / a call is in progress.
Pending == Res("Pending", "none", NoValue, NoValue)
\* Ok(()) of initialize()
Ok == Res("Ok", "none", NoValue, NoValue)
\* Hts221Error::I2c(e), built by From<E> on every `?`
I2c(e) == Res("I2c", e, NoValue, NoValue)
\* Hts221Error::NotCalibrated
NotCalibrated == Res("NotCalibrated", "none", NoValue, NoValue)
\* Hts221Error::InvalidSensor
InvalidSensor == Res("InvalidSensor", "none", NoValue, NoValue)
\* Ok(SensorAcquisition { temperature, relative_humidity })
SensorAcquisition(t, h) == Res("SensorAcquisition", "none", t, h)

\* ------------------------------------------------------------------- bus

\* One transaction as the transport sees it: i2c.write_read(addr, out, buf)
\* or i2c.write(addr, out); inp is what the device put in buf, err the
\* error the transport returned ("none" on success).
Tx(o, out, inp, err) == [op |-> o, out |-> out, inp |-> inp, err |-> err]

ReadOk(r, inp) == Tx("write_read", <<r>>, inp, "none")
ReadErr(r, e) == Tx("write_read", <<r>>, <<>>, e)
WriteOk(r, b) == Tx("write", <<r, b>>, <<>>, "none")
WriteErr(r, b, e) == Tx("write", <<r, b>>, <<>>, e)

NoReg == [none |-> TRUE]

\* The call returns r: its locals are dropped.
Returns(r) ==
    /\ pc' = "idle"
    /\ result' = r
    /\ reg' = NoReg
    /\ cal' = <<>>
    /\ temperature' = NoValue

\* initialize() returns r.
InitReturns(r) ==
    /\ Returns(r)
    /\ lastInit' = (IF r = Ok THEN "ok" ELSE "err")
    /\ everOk' = (everOk \/ r = Ok)

\* The call goes on to its next bus transaction.
GoesOn(p) ==
    /\ pc' = p
    /\ result' = Pending
    /\ UNCHANGED <<lastInit, everOk>>

\* Number of status-register reads issued so far by the current call.
StatusReads(t) == Cardinality({i \in DOMAIN t : t[i].out = <<STATUS>>})

\* ------------------------------------------------------------------ Init

\* Hts221::new: calibration: None
Init ==
    /\ calibration = None
    /\ pc = "idle"
    /\ op = "none"
    /\ result = Pending
    /\ trace = <<>>
    /\ reg = NoReg
    /\ cal = <<>>
    /\ temperature = NoValue
    /\ calAtCall = None
    /\ lastInit = "none"
    /\ everOk = FALSE

\* ------------------------------------------------------------ initialize()

\* Variant of initialize_WhoAmI without the identity comparison.
initialize_WhoAmI_NoCheck ==
    /\ pc = "idle"
    /\ op' = "initialize"
    /\ calAtCall' = calibration
    /\ \/ \E e \in Errors :
            /\ trace' = <<ReadErr(WHO_AM_I, e)>>
            /\ InitReturns(I2c(e))
       \/ \E b \in WhoAmIBytes :
            /\ trace' = <<ReadOk(WHO_AM_I, <<b>>)>>
            /\ GoesOn("ctrl2_read")
            /\ UNCHANGED <<reg, cal, temperature>>
    /\ UNCHANGED calibration

\* Variant of initialize_WhoAmI that reports a failed identity read as
\* InvalidSensor instead of converting the transport error.
initialize_WhoAmI_ErrAsInvalid ==
    /\ pc = "idle"
    /\ op' = "initialize"
    /\ calAtCall' = calibration
    /\ \/ \E e \in Errors :
            /\ trace' = <<ReadErr(WHO_AM_I, e)>>
            /\ InitReturns(InvalidSensor)
       \/ \E b \in WhoAmIBytes :
            /\ trace' = <<ReadOk(WHO_AM_I, <<b>>)>>
            /\ IF b # ADDR
               THEN InitReturns(InvalidSensor)
               ELSE GoesOn("ctrl2_read") /\ UNCHANGED <<reg, cal, temperature>>
    /\ UNCHANGED calibration

\* let addr = WhoAmI::read(..).await?;
\* if addr != self.address { return Err(InvalidSensor) }
initialize_WhoAmI ==
    /\ pc = "idle"
    /\ op' = "initialize"
    /\ calAtCall' = calibration
    /\ \/ \E e \in Errors :
            /\ trace' = <<ReadErr(WHO_AM_I, e)>>
            /\ InitReturns(I2c(e))
       \/ \E b \in WhoAmIBytes :
            /\ trace' = <<ReadOk(WHO_AM_I, <<b>>)>>
            /\ IF b # ADDR
               THEN InitReturns(InvalidSensor)
               ELSE GoesOn("ctrl2_read") /\ UNCHANGED <<reg, cal, temperature>>
    /\ UNCHANGED calibration

\* Ctrl2::modify: let mut reg = Self::read(..).await?; modify(&mut reg);
initialize_Ctrl2Read ==
    /\ pc = "ctrl2_read"
    /\ \/ \E e \in Errors :
            /\ trace' = Append(trace, ReadErr(CTRL_REG2, e))
            /\ InitReturns(I2c(e))
       \/ \E b \in Ctrl2Bytes :
            /\ trace' = Append(trace, ReadOk(CTRL_REG2, <<b>>))
            /\ reg' = boot(IntoCtrl2(b))
            /\ GoesOn("ctrl2_write")
            /\ UNCHANGED <<cal, temperature>>
    /\ UNCHANGED <<calibration, op, calAtCall>>

\* Variant of initialize_Ctrl2Write that goes straight on to control
\* register 3, leaving out the configuration of control register 1.
initialize_Ctrl2Write_SkipCtrl1 ==
    /\ pc = "ctrl2_write"
    /\ \/ \E e \in Errors :
            /\ trace' = Append(trace, WriteErr(CTRL_REG2, Ctrl2IntoU8(reg), e))
            /\ InitReturns(I2c(e))
       \/ /\ trace' = Append(trace, WriteOk(CTRL_REG2, Ctrl2IntoU8(reg)))
          /\ reg' = NoReg
          /\ GoesOn("ctrl3_read")
          /\ UNCHANGED <<cal, temperature>>
    /\ UNCHANGED <<calibration, op, calAtCall>>

\* Ctrl2::modify: Self::write(.., reg).await, then `?` in initialize()
initialize_Ctrl2Write ==
    /\ pc = "ctrl2_write"
    /\ \/ \E e \in Errors :
            /\ trace' = Append(trace, WriteErr(CTRL_REG2, Ctrl2IntoU8(reg), e))
            /\ InitReturns(I2c(e))
       \/ /\ trace' = Append(trace, WriteOk(CTRL_REG2, Ctrl2IntoU8(reg)))
          /\ reg' = NoReg
          /\ GoesOn("ctrl1_read")
          /\ UNCHANGED <<cal, temperature>>
    /\ UNCHANGED <<calibration, op, calAtCall>>

\* Ctrl1::modify: read, then the closure
initialize_Ctrl1Read ==
    /\ pc = "ctrl1_read"
    /\ \/ \E e \in Errors :
            /\ trace' = Append(trace, ReadErr(CTRL_REG1, e))
            /\ InitReturns(I2c(e))
       \/ \E b \in Ctrl1Bytes :
            /\ trace' = Append(trace, ReadOk(CTRL_REG1, <<b>>))
            /\ reg' = Ctrl1Configure(IntoCtrl1(b))
            /\ GoesOn("ctrl1_write")
            /\ UNCHANGED <<cal, temperature>>
    /\ UNCHANGED <<calibration, op, calAtCall>>

\* Ctrl1::modify: write back
initialize_Ctrl1Write ==
    /\ pc = "ctrl1_write"
    /\ \/ \E e \in Errors :
            /\ trace' = Append(trace, WriteErr(CTRL_REG1, Ctrl1IntoU8(reg), e))
            /\ InitReturns(I2c(e))
       \/ /\ trace' = Append(trace, WriteOk(CTRL_REG1, Ctrl1IntoU8(reg)))
          /\ reg' = NoReg
          /\ GoesOn("ctrl3_read")
          /\ UNCHANGED <<cal, temperature>>
    /\ UNCHANGED <<calibration, op, calAtCall>>

\* Ctrl3::modify: read, then the closure
initialize_Ctrl3Read ==
    /\ pc = "ctrl3_read"
    /\ \/ \E e \in Errors :
            /\ trace' = Append(trace, ReadErr(CTRL_REG3, e))
            /\ InitReturns(I2c(e))
       \/ \E b \in Ctrl3Bytes :
            /\ trace' = Append(trace, ReadOk(CTRL_REG3, <<b>>))
            /\ reg' = Ctrl3Enable(IntoCtrl3(b))
            /\ GoesOn("ctrl3_write")
            /\ UNCHANGED <<cal, temperature>>
    /\ UNCHANGED <<calibration, op, calAtCall>>

\* Ctrl3::modify: write back
initialize_Ctrl3Write ==
    /\ pc = "ctrl3_write"
    /\ \/ \E e \in Errors :
            /\ trace' = Append(trace, WriteErr(CTRL_REG3, Ctrl3IntoU8(reg), e))
            /\ InitReturns(I2c(e))
       \/ /\ trace' = Append(trace, WriteOk(CTRL_REG3, Ctrl3IntoU8(reg)))
          /\ reg' = NoReg
          /\ GoesOn("status")
          /\ UNCHANGED <<cal, temperature>>
    /\ UNCHANGED <<calibration, op, calAtCall>>

\* Variant of initialize_Status with an iteration cap: after two status
\* reads the loop is left whatever the status says.
initialize_Status_Capped ==
    /\ pc = "status"
    /\ \/ \E e \in Errors :
            /\ StatusReads(trace) < MaxDrain
            /\ trace' = Append(trace, ReadErr(STATUS, e))
            /\ IF StatusReads(trace) >= 2
               THEN GoesOn("calibration")
               ELSE GoesOn("hout")
       \/ \E b \in StatusBytes :
            /\ any_available(IntoStatus(b)) => StatusReads(trace) < MaxDrain
            /\ trace' = Append(trace, ReadOk(STATUS, <<b>>))
            /\ IF ~any_available(IntoStatus(b)) \/ StatusReads(trace) >= 2
               THEN GoesOn("calibration")
               ELSE GoesOn("hout")
    /\ UNCHANGED <<calibration, op, calAtCall, reg, cal, temperature>>

\* Variant of initialize_Status that propagates the error of a failed
\* status read with `?`.
initialize_Status_Propagate ==
    /\ pc = "status"
    /\ \/ \E e \in Errors :
            /\ StatusReads(trace) < MaxDrain
            /\ trace' = Append(trace, ReadErr(STATUS, e))
            /\ InitReturns(I2c(e))
            /\ UNCHANGED <<calibration, op, calAtCall>>
       \/ \E b \in StatusBytes :
            /\ any_available(IntoStatus(b)) => StatusReads(trace) < MaxDrain
            /\ trace' = Append(trace, ReadOk(STATUS, <<b>>))
            /\ IF ~any_available(IntoStatus(b))
               THEN GoesOn("calibration")
               ELSE GoesOn("hout")
            /\ UNCHANGED <<calibration, op, calAtCall, reg, cal, temperature>>

\* loop { if let Ok(status) = Status::read(..).await {
\*            if !status.any_available() { break; } } ..
\* A failed status read is not an Ok(status): the loop body goes on.  The
\* device asks for at most MaxDrain drain iterations per call.
initialize_Status ==
    /\ pc = "status"
    /\ \/ \E e \in Errors :
            /\ StatusReads(trace) < MaxDrain
            /\ trace' = Append(trace, ReadErr(STATUS, e))
            /\ GoesOn("hout")
       \/ \E b \in StatusBytes :
            /\ any_available(IntoStatus(b)) => StatusReads(trace) < MaxDrain
            /\ trace' = Append(trace, ReadOk(STATUS, <<b>>))
            /\ IF ~any_available(IntoStatus(b))
               THEN GoesOn("calibration")
               ELSE GoesOn("hout")
    /\ UNCHANGED <<calibration, op, calAtCall, reg, cal, temperature>>

\* Hout::read(..).await?;  (sample discarded)
initialize_Hout ==
    /\ pc = "hout"
    /\ \/ \E e \in Errors :
            /\ trace' = Append(trace, ReadErr(H_OUT, e))
            /\ InitReturns(I2c(e))
       \/ \E s \in StaleBytes :
            /\ trace' = Append(trace, ReadOk(H_OUT, s))
            /\ GoesOn("tout")
            /\ UNCHANGED <<reg, cal, temperature>>
    /\ UNCHANGED <<calibration, op, calAtCall>>

\* Tout::read(..).await?;  (sample discarded), then back to the loop head
initialize_Tout ==
    /\ pc = "tout"
    /\ \/ \E e \in Errors :
            /\ trace' = Append(trace, ReadErr(T_OUT, e))
            /\ InitReturns(I2c(e))
       \/ \E s \in StaleBytes :
            /\ trace' = Append(trace, ReadOk(T_OUT, s))
            /\ GoesOn("status")
            /\ UNCHANGED <<reg, cal, temperature>>
    /\ UNCHANGED <<calibration, op, calAtCall>>

\* Variant of initialize_Calibration that clears the stored calibration when
\* a calibration register cannot be read.
initialize_Calibration_Take ==
    /\ pc = "calibration"
    /\ LET r == CalibRegs[Len(cal) + 1] IN
       \/ \E e \in Errors :
            /\ trace' = Append(trace, ReadErr(r, e))
            /\ InitReturns(I2c(e))
            /\ calibration' = None
       \/ \E buf \in CalibBytes(r) :
            /\ trace' = Append(trace, ReadOk(r, buf))
            /\ IF Len(cal) + 1 < Len(CalibRegs)
               THEN /\ cal' = Append(cal, IntoCalibPoint(buf))
                    /\ GoesOn("calibration")
                    /\ UNCHANGED <<calibration, reg, temperature>>
               ELSE /\ calibration' =
                         Some(MkCalibration(Append(cal, IntoCalibPoint(buf))))
                    /\ InitReturns(Ok)
    /\ UNCHANGED <<op, calAtCall>>

\* Variant of initialize_Calibration that stores a calibration even when the
\* last calibration register cannot be read (a default point in its place).
initialize_Calibration_Partial ==
    /\ pc = "calibration"
    /\ LET r == CalibRegs[Len(cal) + 1] IN
       \/ \E e \in Errors :
            /\ trace' = Append(trace, ReadErr(r, e))
            /\ InitReturns(I2c(e))
            /\ IF Len(cal) + 1 < Len(CalibRegs)
               THEN UNCHANGED calibration
               ELSE calibration' =
                        Some(MkCalibration(Append(cal, [x |-> 0, y |-> 0])))
       \/ \E buf \in CalibBytes(r) :
            /\ trace' = Append(trace, ReadOk(r, buf))
            /\ IF Len(cal) + 1 < Len(CalibRegs)
               THEN /\ cal' = Append(cal, IntoCalibPoint(buf))
                    /\ GoesOn("calibration")
                    /\ UNCHANGED <<calibration, reg, temperature>>
               ELSE /\ calibration' =
                         Some(MkCalibration(Append(cal, IntoCalibPoint(buf))))
                    /\ InitReturns(Ok)
    /\ UNCHANGED <<op, calAtCall>>

\* self.calibration.replace(Calibration::read(..).await?); Ok(())
\* Calibration::read reads the four calibration registers in turn; the
\* replace happens only once all four have been read.
initialize_Calibration ==
    /\ pc = "calibration"
    /\ LET r == CalibRegs[Len(cal) + 1] IN
       \/ \E e \in Errors :
            /\ trace' = Append(trace, ReadErr(r, e))
            /\ InitReturns(I2c(e))
            /\ UNCHANGED calibration
       \/ \E buf \in CalibBytes(r) :
            /\ trace' = Append(trace, ReadOk(r, buf))
            /\ IF Len(cal) + 1 < Len(CalibRegs)
               THEN /\ cal' = Append(cal, IntoCalibPoint(buf))
                    /\ GoesOn("calibration")
                    /\ UNCHANGED <<calibration, reg, temperature>>
               ELSE /\ calibration' =
                         Some(MkCalibration(Append(cal, IntoCalibPoint(buf))))
                    /\ InitReturns(Ok)
    /\ UNCHANGED <<op, calAtCall>>

\* ------------------------------------------------------------------ read()

\* Variant of read_NotCalibrated that samples the temperature register
\* before it looks at the calibration.
read_NotCalibrated_Probe ==
    /\ pc = "idle"
    /\ ~calibration.some
    /\ op' = "read"
    /\ calAtCall' = calibration
    /\ \E s \in SampleBytes : trace' = <<ReadOk(T_OUT, s)>>
    /\ Returns(NotCalibrated)
    /\ UNCHANGED <<calibration, lastInit, everOk>>

\* if let Some(calibration) = &self.calibration {..} else {
\*     Err(Hts221Error::NotCalibrated) }
read_NotCalibrated ==
    /\ pc = "idle"
    /\ ~calibration.some
    /\ op' = "read"
    /\ calAtCall' = calibration
    /\ trace' = <<>>
    /\ Returns(NotCalibrated)
    /\ UNCHANGED <<calibration, lastInit, everOk>>

\* Variant of read_Tout that goes on to the humidity read when the
\* temperature read fails.
read_Tout_Continue ==
    /\ pc = "idle"
    /\ calibration.some
    /\ op' = "read"
    /\ calAtCall' = calibration
    /\ \/ \E e \in Errors :
            /\ trace' = <<ReadErr(T_OUT, e)>>
            /\ temperature' = NoValue
            /\ GoesOn("read_hout")
            /\ UNCHANGED <<reg, cal>>
       \/ \E s \in SampleBytes :
            /\ trace' = <<ReadOk(T_OUT, s)>>
            /\ temperature' =
                   calibrated_temperature(calibration.val, FromLeBytesI16(s))
            /\ GoesOn("read_hout")
            /\ UNCHANGED <<reg, cal>>
    /\ UNCHANGED calibration

\* let t_out = Tout::read(..).await? as i16;
\* let temperature = calibration.calibrated_temperature(t_out);
read_Tout ==
    /\ pc = "idle"
    /\ calibration.some
    /\ op' = "read"
    /\ calAtCall' = calibration
    /\ \/ \E e \in Errors :
            /\ trace' = <<ReadErr(T_OUT, e)>>
            /\ Returns(I2c(e))
            /\ UNCHANGED <<lastInit, everOk>>
       \/ \E s \in SampleBytes :
            /\ trace' = <<ReadOk(T_OUT, s)>>
            /\ temperature' =
                   calibrated_temperature(calibration.val, FromLeBytesI16(s))
            /\ GoesOn("read_hout")
            /\ UNCHANGED <<reg, cal>>
    /\ UNCHANGED calibration

\* Variant of read_Hout that takes the calibration out of the session
\* (Option::take) instead of borrowing it.
read_Hout_Take ==
    /\ pc = "read_hout"
    /\ \/ \E e \in Errors :
            /\ trace' = Append(trace, ReadErr(H_OUT, e))
            /\ Returns(I2c(e))
       \/ \E s \in SampleBytes :
            /\ trace' = Append(trace, ReadOk(H_OUT, s))
            /\ Returns(SensorAcquisition(temperature,
                   calibrated_humidity(calibration.val, FromLeBytesI16(s))))
    /\ calibration' = None
    /\ UNCHANGED <<op, calAtCall, lastInit, everOk>>

\* let h_out = Hout::read(..).await?;
\* let relative_humidity = calibration.calibrated_humidity(h_out);
\* Ok(SensorAcquisition { temperature, relative_humidity })
read_Hout ==
    /\ pc = "read_hout"
    /\ \/ \E e \in Errors :
            /\ trace' = Append(trace, ReadErr(H_OUT, e))
            /\ Returns(I2c(e))
       \/ \E s \in SampleBytes :
            /\ trace' = Append(trace, ReadOk(H_OUT, s))
            /\ Returns(SensorAcquisition(temperature,
                   calibrated_humidity(calibration.val, FromLeBytesI16(s))))
    /\ UNCHANGED <<calibration, op, calAtCall, lastInit, everOk>>

\* ------------------------------------------------------------------- Spec

Next ==
    \/ initialize_WhoAmI
    \/ initialize_Ctrl2Read
    \/ initialize_Ctrl2Write
    \/ initialize_Ctrl1Read
    \/ initialize_Ctrl1Write
    \/ initialize_Ctrl3Read
    \/ initialize_Ctrl3Write
    \/ initialize_Status
    \/ initialize_Hout
    \/ initialize_Tout
    \/ initialize_Calibration
    \/ read_NotCalibrated
    \/ read_Tout
    \/ read_Hout

Spec == Init /\ [][Next]_vars

\* The steps inside a call: once initialize() or read() has been called, the
\* executor keeps polling it and every bus transaction completes (with a
\* result or an error), so the call's next step is eventually taken.
Step ==
    \/ initialize_Ctrl2Read
    \/ initialize_Ctrl2Write
    \/ initialize_Ctrl1Read
    \/ initialize_Ctrl1Write
    \/ initialize_Ctrl3Read
    \/ initialize_Ctrl3Write
    \/ initialize_Status
    \/ initialize_Hout
    \/ initialize_Tout
    \/ initialize_Calibration
    \/ read_Hout

SpecLive == Init /\ [][Next]_vars /\ WF_vars(Step)

\* ------------------------------------------------- register operations

\* The register operations called on their own, over a transport that
\* delivers any byte: Ctrl2::read followed by Ctrl2::write of the value
\* read, Ctrl2::modify with the closure of initialize() (reg.boot()), and
\* Hout::read.  `reg` is the register value in hand, `result` the Result of
\* the operation, `trace` its bus transactions.

\* u8
U8 == 0..255

\* Ok(v) / Err(e) of a register operation (Result<_, I::Error>)
RegOk(v) == [kind |-> "Ok", val |-> v]
RegErr(e) == [kind |-> "Err", err |-> e]

RegInit ==
    /\ calibration = None
    /\ pc = "harness"
    /\ op = "none"
    /\ result = Pending
    /\ trace = <<>>
    /\ reg = NoReg
    /\ cal = <<>>
    /\ temperature = NoValue
    /\ calAtCall = None
    /\ lastInit = "none"
    /\ everOk = FALSE

\* Ctrl2::read: write_read of [CTRL_REG2] into a one-byte buffer, buf[0].into()
Ctrl2_read ==
    /\ pc = "harness"
    /\ op' = "Ctrl2::read"
    /\ pc' = "ctrl2_read"
    /\ \/ \E e \in Errors :
            /\ trace' = <<ReadErr(CTRL_REG2, e)>>
            /\ result' = RegErr(e)
            /\ UNCHANGED reg
       \/ \E b \in U8 :
            /\ trace' = <<ReadOk(CTRL_REG2, <<b>>)>>
            /\ result' = RegOk(IntoCtrl2(b))
            /\ reg' = IntoCtrl2(b)
    /\ UNCHANGED <<calibration, cal, temperature, calAtCall, lastInit, everOk>>

\* Ctrl2::write of the value read: write of [CTRL_REG2, reg.into()]
Ctrl2_write ==
    /\ pc = "ctrl2_read"
    /\ result.kind = "Ok"
    /\ op' = "Ctrl2::write"
    /\ pc' = "ctrl2_write"
    /\ \/ \E e \in Errors :
            /\ trace' = Append(trace, WriteErr(CTRL_REG2, Ctrl2IntoU8(reg), e))
            /\ result' = RegErr(e)
       \/ /\ trace' = Append(trace, WriteOk(CTRL_REG2, Ctrl2IntoU8(reg)))
          /\ result' = RegOk(<<>>)
    /\ UNCHANGED <<calibration, reg, cal, temperature, calAtCall, lastInit,
                   everOk>>

\* Variant of Ctrl2_modify_read that, when the read fails, applies the
\* closure to a zeroed register value and goes on to the write.
Ctrl2_modify_read_Default ==
    /\ pc = "harness"
    /\ op' = "Ctrl2::modify"
    /\ pc' = "ctrl2_modify_write"
    /\ result' = Pending
    /\ \/ \E e \in Errors :
            /\ trace' = <<ReadErr(CTRL_REG2, e)>>
            /\ reg' = boot(IntoCtrl2(0))
       \/ \E b \in U8 :
            /\ trace' = <<ReadOk(CTRL_REG2, <<b>>)>>
            /\ reg' = boot(IntoCtrl2(b))
    /\ UNCHANGED <<calibration, cal, temperature, calAtCall, lastInit, everOk>>

\* Ctrl2::modify(.., |reg| { reg.boot(); }):
\* let mut reg = Self::read(..).await?; modify(&mut reg);
Ctrl2_modify_read ==
    /\ pc = "harness"
    /\ op' = "Ctrl2::modify"
    /\ \/ \E e \in Errors :
            /\ trace' = <<ReadErr(CTRL_REG2, e)>>
            /\ result' = RegErr(e)
            /\ pc' = "ctrl2_modify_done"
            /\ UNCHANGED reg
       \/ \E b \in U8 :
            /\ trace' = <<ReadOk(CTRL_REG2, <<b>>)>>
            /\ reg' = boot(IntoCtrl2(b))
            /\ result' = Pending
            /\ pc' = "ctrl2_modify_write"
    /\ UNCHANGED <<calibration, cal, temperature, calAtCall, lastInit, everOk>>

\* Ctrl2::modify: Self::write(.., reg).await
Ctrl2_modify_write ==
    /\ pc = "ctrl2_modify_write"
    /\ pc' = "ctrl2_modify_done"
    /\ \/ \E e \in Errors :
            /\ trace' = Append(trace, WriteErr(CTRL_REG2, Ctrl2IntoU8(reg), e))
            /\ result' = RegErr(e)
       \/ /\ trace' = Append(trace, WriteOk(CTRL_REG2, Ctrl2IntoU8(reg)))
          /\ result' = RegOk(<<>>)
    /\ UNCHANGED <<calibration, op, reg, cal, temperature, calAtCall, lastInit,
                   everOk>>

\* Hout::read: write_read of [H_OUT] into a two-byte buffer,
\* Ok(i16::from_le_bytes(buf))
Hout_read ==
    /\ pc = "harness"
    /\ op' = "Hout::read"
    /\ pc' = "hout_read"
    /\ \/ \E e \in Errors :
            /\ trace' = <<ReadErr(H_OUT, e)>>
            /\ result' = RegErr(e)
       \/ \E lo \in U8, hi \in U8 :
            /\ trace' = <<ReadOk(H_OUT, <<lo, hi>>)>>
            /\ result' = RegOk(FromLeBytesI16(<<lo, hi>>))
    /\ UNCHANGED <<calibration, reg, cal, temperature, calAtCall, lastInit,
                   everOk>>

RegNext ==
    \/ Ctrl2_read
    \/ Ctrl2_write
    \/ Ctrl2_modify_read
    \/ Ctrl2_modify_write
    \/ Hout_read

SpecRegisters == RegInit /\ [][RegNext]_vars

\* ----------------------------------------------------------------- claims

\* A control-register write as the transport sees it.
IsCtrlWrite(tx) ==
    tx.op = "write" /\ tx.out[1] \in {CTRL_REG1, CTRL_REG2, CTRL_REG3}

\* A successful status-register read whose byte has the temperature-available
\* bit (bit 0) or the humidity-available bit (bit 1) set.
Flagged(tx) ==
    /\ tx.out = <<STATUS>>
    /\ tx.err = "none"
    /\ (tx.inp[1] % 2 = 1 \/ (tx.inp[1] \div 2) % 2 = 1)

\* A successful status-register read with both available bits clear.
Clear(tx) ==
    /\ tx.out = <<STATUS>>
    /\ tx.err = "none"
    /\ tx.inp[1] % 4 = 0

IsRead(tx, r) == tx.op = "write_read" /\ tx.out = <<r>>

NoFailure(t) == \A i \in DOMAIN t : t[i].err = "none"

\* Number of transactions of initialize() before the drain loop: identity
\* read and the read and write of each of the three control registers.
SetupLen == Len(<<WHO_AM_I, CTRL_REG2, CTRL_REG2, CTRL_REG1, CTRL_REG1,
                  CTRL_REG3, CTRL_REG3>>)

\* The calibration delivered by the last four transactions of a trace.
CalibrationRead(t) ==
    MkCalibration([k \in 1..4 |-> IntoCalibPoint(t[Len(t) - 4 + k].inp)])

\* C1: whenever read() is called with the Calibration Data absent, it
\* returns NotCalibrated at once and has issued no bus transaction.
C1_UncalibratedRead ==
    (op = "read" /\ ~calAtCall.some) =>
        (pc = "idle" /\ result = NotCalibrated /\ trace = <<>>)

\* read() on a freshly constructed session has returned NotCalibrated.
C1_Witness ==
    /\ op = "read"
    /\ pc = "idle"
    /\ lastInit = "none"
    /\ ~calibration.some
    /\ result = NotCalibrated

\* C2: in every call of initialize() the first bus transaction is the
\* identity-register read, and a control-register write is in the trace only
\* after that read succeeded and delivered the expected identity value.
C2_IdentityFirst ==
    op = "initialize" =>
        /\ trace # <<>>
        /\ IsRead(trace[1], WHO_AM_I)
        /\ \A i \in DOMAIN trace :
               IsCtrlWrite(trace[i]) =>
                   (i > 1 /\ trace[1].err = "none" /\ trace[1].inp = <<ADDR>>)

\* initialize() has issued a control-register write.
C2_Witness ==
    /\ op = "initialize"
    /\ \E i \in DOMAIN trace : IsCtrlWrite(trace[i])

\* C3: initialize() returns InvalidSensor exactly when the identity read
\* succeeded with a value other than the expected one, and then the identity
\* read is the only transaction of the call.
C3_InvalidSensorIff ==
    (op = "initialize" /\ pc = "idle") =>
        /\ (result = InvalidSensor) <=>
               (trace[1].err = "none" /\ trace[1].inp # <<ADDR>>)
        /\ (result = InvalidSensor) => Len(trace) = 1

\* initialize() has returned InvalidSensor.
C3_Witness ==
    /\ op = "initialize"
    /\ pc = "idle"
    /\ result = InvalidSensor
    /\ trace[1].inp # <<ADDR>>

\* C4: initialize() leaves the Calibration Data as it was at the call until
\* it returns Ok, and when it returns Ok the Calibration Data is present.
C4_AllOrNothing ==
    op = "initialize" =>
        /\ (pc # "idle" \/ result # Ok) => calibration = calAtCall
        /\ (pc = "idle" /\ result = Ok) => calibration.some

\* initialize() on an initialized session has failed with a transport error
\* after the drain loop was entered.
C4_Witness ==
    /\ op = "initialize"
    /\ pc = "idle"
    /\ result.kind = "I2c"
    /\ calAtCall.some
    /\ Len(trace) > SetupLen

\* C5 as claimed: after an initialize() that returned an error, whatever came
\* before, the Calibration Data is None and a following read() fails with
\* NotCalibrated.
C5_Claim ==
    (pc = "idle" /\ lastInit = "err") =>
        /\ ~calibration.some
        /\ op = "read" => result = NotCalibrated

\* C5 as amended: after an initialize() that returned an error, the
\* Calibration Data is None and a following read() fails with NotCalibrated
\* when no initialize() of the session has returned Ok; when one has, the
\* Calibration Data is still present and read() does not fail with
\* NotCalibrated.
C5_FailedInitialize ==
    (pc = "idle" /\ lastInit = "err") =>
        /\ calibration.some <=> everOk
        /\ op = "read" => (result = NotCalibrated <=> ~everOk)

\* read() after a failed initialize() on a never-initialized session has
\* returned NotCalibrated.
C5_Witness ==
    /\ pc = "idle"
    /\ lastInit = "err"
    /\ ~everOk
    /\ op = "read"
    /\ result = NotCalibrated

C7_Claim ==
    \A i \in DOMAIN trace :
        trace[i].err # "none" =>
            /\ i = Len(trace)
            /\ pc = "idle"
            /\ result = I2c(trace[i].err)

\* C8: when initialize() reaches the calibration reads without a transport
\* failure and N status reads reported an available flag, the drain loop has
\* issued exactly: N times (flagged status read, humidity-output read,
\* temperature-output read), then one status read with both flags clear.
C8_DrainPairs ==
    (op = "initialize" /\ pc = "calibration" /\ cal = <<>> /\ NoFailure(trace))
    =>
        LET N == Cardinality({i \in DOMAIN trace : Flagged(trace[i])})
        IN  /\ StatusReads(trace) = N + 1
            /\ Len(trace) = SetupLen + 3 * N + 1
            /\ \A k \in 0..(N - 1) :
                   /\ Flagged(trace[SetupLen + 3 * k + 1])
                   /\ IsRead(trace[SetupLen + 3 * k + 2], H_OUT)
                   /\ IsRead(trace[SetupLen + 3 * k + 3], T_OUT)
            /\ Clear(trace[SetupLen + 3 * N + 1])

\* initialize() stands before its first calibration read after two drain
\* pairs, no transaction having failed.
C8_Witness ==
    /\ op = "initialize"
    /\ pc = "calibration"
    /\ cal = <<>>
    /\ NoFailure(trace)
    /\ Cardinality({i \in DOMAIN trace : Flagged(trace[i])}) = 2

\* C9 as claimed: no measurement returned by read() comes from a division by
\* zero (a degenerate calibration pair is reported as an error instead).
C9_Claim ==
    (pc = "idle" /\ result.kind = "SensorAcquisition") =>
        /\ IsFinite(result.temperature)
        /\ IsFinite(result.relative_humidity)

\* C10: read() on an initialized session issues only register reads, the
\* temperature-output read first; it returns I2c(e) after a failed
\* temperature read without a humidity read, I2c(e) after a failed humidity
\* read, and otherwise the measurement calibrated from both samples; the
\* Calibration Data stays what it was.
C10_ReadyRead ==
    (op = "read" /\ calAtCall.some) =>
        /\ calibration = calAtCall
        /\ trace # <<>>
        /\ IsRead(trace[1], T_OUT)
        /\ pc = "idle" =>
            \/ /\ Len(trace) = 1
               /\ trace[1].err # "none"
               /\ result = I2c(trace[1].err)
            \/ /\ Len(trace) = 2
               /\ trace[1].err = "none"
               /\ IsRead(trace[2], H_OUT)
               /\ trace[2].err # "none"
               /\ result = I2c(trace[2].err)
            \/ /\ Len(trace) = 2
               /\ trace[1].err = "none"
               /\ IsRead(trace[2], H_OUT)
               /\ trace[2].err = "none"
               /\ result = SensorAcquisition(
                     calibrated_temperature(calibration.val,
                                            FromLeBytesI16(trace[1].inp)),
                     calibrated_humidity(calibration.val,
                                         FromLeBytesI16(trace[2].inp)))

\* read() on an initialized session has returned a measurement.
C10_Witness ==
    /\ op = "read"
    /\ pc = "idle"
    /\ calAtCall.some
    /\ result.kind = "SensorAcquisition"
    /\ Len(trace) = 2

\* A successful write to register r.
IsWrite(tx, r) ==
    tx.op = "write" /\ Len(tx.out) = 2 /\ tx.out[1] = r /\ tx.err = "none"

\* A successful read of register r.
IsReadOk(tx, r) == IsRead(tx, r) /\ tx.err = "none"

\* C11: the trace of an initialize() that returned Ok is, in this order: the
\* identity read; read and write of control register 2; read and write of
\* control register 1; read and write of control register 3; the drain loop
\* (only status, humidity-output and temperature-output reads, beginning and
\* ending with a status read); the four calibration reads.
C11_PhaseOrder ==
    (op = "initialize" /\ pc = "idle" /\ result = Ok) =>
        LET n == Len(trace) IN
        /\ n >= SetupLen + 1 + Len(CalibRegs)
        /\ IsReadOk(trace[1], WHO_AM_I)
        /\ IsReadOk(trace[2], CTRL_REG2)
        /\ IsWrite(trace[3], CTRL_REG2)
        /\ IsReadOk(trace[4], CTRL_REG1)
        /\ IsWrite(trace[5], CTRL_REG1)
        /\ IsReadOk(trace[6], CTRL_REG3)
        /\ IsWrite(trace[7], CTRL_REG3)
        /\ \A i \in (SetupLen + 1)..(n - Len(CalibRegs)) :
               IsRead(trace[i], STATUS) \/ IsRead(trace[i], H_OUT)
                   \/ IsRead(trace[i], T_OUT)
        /\ IsRead(trace[SetupLen + 1], STATUS)
        /\ IsReadOk(trace[n - Len(CalibRegs)], STATUS)
        /\ \A k \in 1..Len(CalibRegs) :
               IsReadOk(trace[n - Len(CalibRegs) + k], CalibRegs[k])

\* initialize() has returned Ok after at least one drain pair.
C11_Witness ==
    /\ op = "initialize"
    /\ pc = "idle"
    /\ result = Ok
    /\ Len(trace) > SetupLen + 1 + Len(CalibRegs)

\* C12: the control-register-2 codec round-trips.  After Ctrl2::read of a
\* byte b and Ctrl2::write of the value v read, decoding the byte written
\* gives v again (every one of the 8 values v is read), and the byte written
\* is b whenever bits 6..2 of b are zero.
C12_Ctrl2RoundTrip ==
    (pc = "ctrl2_write") =>
        LET b == trace[1].inp[1]
            e == trace[2].out[2]
        IN  /\ IntoCtrl2(e) = reg
            /\ (b \div 4) % 32 = 0 => e = b

\* The value with boot, heater and one-shot all set has been read from the
\* byte 0x83 and written back.
C12_Witness ==
    /\ pc = "ctrl2_write"
    /\ trace[1].inp = <<131>>
    /\ reg = [boot |-> TRUE, heater |-> TRUE, enable_one_shot |-> TRUE]
    /\ trace[2].out = <<CTRL_REG2, 131>>

\* C13: Ctrl2::modify issues one write-then-read of the register; when that
\* fails it returns the read's error, the closure has not run and nothing is
\* written; otherwise it issues one write of [CTRL_REG2, encoded value],
\* the value being the decoded byte after the closure, and nothing else.
C13_Modify ==
    (op = "Ctrl2::modify") =>
        /\ Len(trace) \in {1, 2}
        /\ trace[1].op = "write_read"
        /\ trace[1].out = <<CTRL_REG2>>
        /\ trace[1].err # "none" =>
               /\ Len(trace) = 1
               /\ pc = "ctrl2_modify_done"
               /\ result = RegErr(trace[1].err)
               /\ reg = NoReg
        /\ (trace[1].err = "none" /\ Len(trace) = 1) =>
               pc = "ctrl2_modify_write"
        /\ Len(trace) = 2 =>
               /\ trace[1].err = "none"
               /\ pc = "ctrl2_modify_done"
               /\ trace[2].op = "write"
               /\ trace[2].out =
                      <<CTRL_REG2,
                        Ctrl2IntoU8(boot(IntoCtrl2(trace[1].inp[1])))>>
               /\ result = (IF trace[2].err = "none" THEN RegOk(<<>>)
                            ELSE RegErr(trace[2].err))

\* Ctrl2::modify has returned the error of its failed read.
C13_Witness ==
    /\ op = "Ctrl2::modify"
    /\ pc = "ctrl2_modify_done"
    /\ Len(trace) = 1
    /\ result.kind = "Err"

\* C14: the byte Ctrl2::modify writes with the closure of the Booting step
\* is (b AND 0x03) OR 0x80 for the byte b it read.
C14_BootByte ==
    (op = "Ctrl2::modify" /\ Len(trace) = 2) =>
        trace[2].out[2] = (trace[1].inp[1] % 4) + 128

\* The byte 0x7E (heater and all reserved bits set) has been read and 0x82
\* written.
C14_Witness ==
    /\ op = "Ctrl2::modify"
    /\ Len(trace) = 2
    /\ trace[1].inp = <<126>>
    /\ trace[2].out = <<CTRL_REG2, 130>>

\* C19: Hout::read issues one write-then-read that sends the one byte H_OUT
\* and receives two bytes [lo, hi]; it returns lo + 256 * hi, less 65536 when
\* hi >= 128 (and the transport's error when the transaction fails).
C19_HoutRead ==
    (op = "Hout::read") =>
        /\ Len(trace) = 1
        /\ trace[1].op = "write_read"
        /\ trace[1].out = <<H_OUT>>
        /\ trace[1].err # "none" => result = RegErr(trace[1].err)
        /\ trace[1].err = "none" =>
               LET lo == trace[1].inp[1]
                   hi == trace[1].inp[2]
               IN  /\ Len(trace[1].inp) = 2
                   /\ result = RegOk(lo + 256 * hi
                                     - (IF hi >= 128 THEN 65536 ELSE 0))

\* Hout::read has returned -32767 for the bytes [0x01, 0x80].
C19_Witness ==
    /\ op = "Hout::read"
    /\ trace[1].inp = <<1, 128>>
    /\ result = RegOk(-32767)

\* C15: in initialize(), a status read that succeeded with bits 0 and 1
\* clear is followed by the first calibration read, whatever its other six
\* bits; every other status read is followed by the humidity-output read;
\* and the first calibration read comes directly after such a clear status
\* read.
C15_DrainExit ==
    op = "initialize" =>
        \A i \in DOMAIN trace :
            /\ (IsRead(trace[i], STATUS) /\ i < Len(trace)) =>
                   IF Clear(trace[i])
                   THEN IsRead(trace[i + 1], CALIB_T0)
                   ELSE IsRead(trace[i + 1], H_OUT)
            /\ (IsRead(trace[i], STATUS) /\ i = Len(trace)) =>
                   IF Clear(trace[i])
                   THEN pc = "calibration"
                   ELSE pc = "hout"
            /\ IsRead(trace[i], CALIB_T0) => (i > 1 /\ Clear(trace[i - 1]))

\* initialize() has left the drain loop on the status byte 0xFC after a
\* drain pair asked for by the status byte 0xFE, and read a calibration
\* register.
C15_Witness ==
    /\ op = "initialize"
    /\ \E i \in DOMAIN trace :
           /\ i > 3
           /\ IsRead(trace[i], CALIB_T0)
           /\ trace[i - 1].inp = <<252>>
           /\ trace[i - 4].inp = <<254>>

\* Number of successful reads of register r in a trace.
ReadsOk(t, r) == Cardinality({i \in DOMAIN t : IsReadOk(t[i], r)})

\* C16: the driver puts no cap on the drain loop.  A status read that
\* reports an available flag is followed by a further drain pair however
\* many have gone before, and an initialize() whose transactions have all
\* succeeded returns only after a status read with both flags clear.
C16_NoIterationCap ==
    [][/\ (pc = "status" /\ Flagged(trace'[Len(trace')])) => pc' = "hout"
       /\ (op' = "initialize" /\ pc' = "idle" /\ NoFailure(trace')
             /\ trace'[1].inp = <<ADDR>>) =>
              \E i \in DOMAIN trace' : Clear(trace'[i])]_vars

\* initialize() is still in its drain loop after as many drain pairs as the
\* device asks for, every status read having reported a flag and no
\* transaction having failed.
C16_Witness ==
    /\ op = "initialize"
    /\ pc = "status"
    /\ NoFailure(trace)
    /\ Cardinality({i \in DOMAIN trace : Flagged(trace[i])}) = MaxDrain
    /\ StatusReads(trace) = MaxDrain
    /\ ReadsOk(trace, H_OUT) = MaxDrain
    /\ ReadsOk(trace, T_OUT) = MaxDrain

\* A failed status-register read.
StatusFailed(tx) == IsRead(tx, STATUS) /\ tx.err # "none"

\* C18: a failed status read does not end initialize(): it is followed by
\* the humidity-output read, the temperature-output read and the next status
\* read.  A transport error returned from the drain loop is that of a
\* humidity-output or temperature-output read, and while every status read
\* fails and every other read succeeds initialize() has not returned.
C18_StatusFailureSwallowed ==
    op = "initialize" =>
        LET n == Len(trace) IN
        /\ \A i \in DOMAIN trace :
               StatusFailed(trace[i]) =>
                   /\ i = n => pc = "hout"
                   /\ i < n => IsRead(trace[i + 1], H_OUT)
                   /\ i + 1 < n =>
                          (IsReadOk(trace[i + 1], H_OUT)
                              /\ IsRead(trace[i + 2], T_OUT))
                   /\ i + 2 < n =>
                          (IsReadOk(trace[i + 2], T_OUT)
                              /\ IsRead(trace[i + 3], STATUS))
        /\ (pc = "idle" /\ result.kind = "I2c" /\ n > SetupLen
              /\ ~(\E k \in 1..Len(CalibRegs) : IsRead(trace[n], CalibRegs[k])))
               =>
               /\ IsRead(trace[n], H_OUT) \/ IsRead(trace[n], T_OUT)
               /\ result = I2c(trace[n].err)
        /\ (n > SetupLen
              /\ \A i \in (SetupLen + 1)..n :
                     IF IsRead(trace[i], STATUS)
                     THEN trace[i].err # "none"
                     ELSE trace[i].err = "none") =>
               pc # "idle"

\* initialize() polls the status register again after a failed status read
\* and the drain pair that followed it.
C18_Witness ==
    /\ op = "initialize"
    /\ \E i \in DOMAIN trace :
           /\ StatusFailed(trace[i])
           /\ i + 3 <= Len(trace)
           /\ IsRead(trace[i + 3], STATUS)

\* C17: an initialize() under way (its identity read has matched) leads to
\* its return, with Ok and the Calibration Data present unless one of its
\* transactions failed (the device reports an available flag on finitely
\* many status reads); an initialize() that returns without a failed
\* transaction after a matching identity returns Ok with the Calibration
\* Data present; and once an initialize() has returned Ok no read() returns
\* NotCalibrated.
C17_InitializeCompletes ==
    /\ (op = "initialize" /\ pc # "idle") ~>
           (op = "initialize" /\ pc = "idle"
              /\ ((result = Ok /\ calibration.some) \/ ~NoFailure(trace)))
    /\ []((op = "initialize" /\ pc = "idle" /\ NoFailure(trace)
             /\ trace[1].inp = <<ADDR>>) =>
              (result = Ok /\ calibration.some))
    /\ []((everOk /\ op = "read" /\ pc = "idle") => result # NotCalibrated)

\* read() has returned a measurement after an initialize() that returned Ok
\* after draining.
C17_Witness ==
    /\ everOk
    /\ lastInit = "ok"
    /\ op = "read"
    /\ pc = "idle"
    /\ result.kind = "SensorAcquisition"

====
